---- MODULE Spec2Model ----
(***************************************************************************)
(* RNA hypergraph statistics: the statistics facade (partitions cache,     *)
(* conductance), the structural diff of two folding hypergraphs and the    *)
(* temperature sensitivity sweep.                                          *)
(*                                                                         *)
(* Python values are modelled as follows.                                  *)
(*   str          a sequence of one-character strings ("db1" is            *)
(*                <<"d","b","1">>), so that startswith and name[0] are     *)
(*                computed and not assumed                                 *)
(*   list         a sequence                                               *)
(*   set          a set                                                    *)
(*   dict         a sequence of [key, value] records with distinct keys,   *)
(*                in insertion order (the order Python iterates in)        *)
(*   int / int    the quotient as a fraction [num, den] in lowest terms;   *)
(*                true division of two small integers is correctly         *)
(*                rounded, so two quotients are the same float exactly     *)
(*                when they are the same fraction                          *)
(*   a call       its outcome [kind, value, error]: kind "return" with the *)
(*                value, or kind "raise" with the exception's name         *)
(***************************************************************************)
EXTENDS Integers, Sequences, FiniteSets, TLC

VARIABLES variant, HG, partitions_field, precomputed_H, kumar_log,
          other, THG, ret

vars == <<variant, HG, partitions_field, precomputed_H, kumar_log,
          other, THG, ret>>

(***************************************************************************)
(* Bounds of the model.                                                    *)
(***************************************************************************)
\* nodes of a hypergraph are 1..n with n <= MaxNode
MaxNode == 2
\* a hypergraph has at most MaxEdges hyperedges
MaxEdges == 2
\* the community detection returns at most MaxParts partitions
MaxParts == 2
\* the invocations of the community detection are logged up to MaxCalls
MaxCalls == 2
\* the temperature provider knows the temperatures 0..MaxTemp
MaxTemp == 2

(***************************************************************************)
(* Generic helpers over Python values.                                     *)
(***************************************************************************)
Range(s) == {s[i] : i \in 1..Len(s)}

RECURSIVE SumSeq(_)
SumSeq(s) == IF s = <<>> THEN 0 ELSE Head(s) + SumSeq(Tail(s))

RECURSIVE AscList(_)
\* the members of a set of integers as a list, smallest first
AscList(S) ==
    IF S = {} THEN <<>>
    ELSE LET m == CHOOSE x \in S : \A y \in S : x <= y
         IN  <<m>> \o AscList(S \ {m})

RECURSIVE Gcd(_, _)
Gcd(a, b) == IF b = 0 THEN a ELSE Gcd(b, a % b)

Return(v) == [kind |-> "return", value |-> v, error |-> ""]

\* the float that is the fraction num/den, in lowest terms
Float(num, den) ==
    LET g == Gcd(num, den)
    IN  [type |-> "float", num |-> num \div g, den |-> den \div g]

Raise(e)  == [kind |-> "raise", value |-> <<>>, error |-> e]

\* Python's a / b on two non-negative ints
TrueDivMutZero(a, b) ==
    IF b = 0 THEN Return(Float(0, 1)) ELSE Return(Float(a, b))

TrueDiv(a, b) ==
    IF b = 0 THEN Raise("ZeroDivisionError") ELSE Return(Float(a, b))

\* Python's list[n] for an int n: negative n counts from the end
ListIndex(list, n) ==
    IF 0 <= n /\ n < Len(list) THEN Return(list[n + 1])
    ELSE IF -Len(list) <= n /\ n < 0 THEN Return(list[Len(list) + n + 1])
    ELSE Raise("IndexError")

(***************************************************************************)
(* Hypergraphs: the nodes and the incidence dict (edge id -> node list).   *)
(***************************************************************************)
Digit == <<"1", "2", "3", "4", "5">>

EdgeId(i) == <<"e", Digit[i]>>

EmptyHG == [nodes |-> {}, incidence_dict |-> <<>>]

\* the hypergraphs a facade is built on: every hyperedge non-empty, nodes
\* that belong to no hyperedge allowed
FacadeHypergraphs ==
    UNION { UNION { { [nodes |-> 1..n,
                       incidence_dict |->
                           [i \in 1..k |-> [key |-> EdgeId(i),
                                            value |-> AscList(m[i])]]]
                      : m \in [1..k -> (SUBSET (1..n)) \ {{}}] }
                    : k \in 0..MaxEdges }
            : n \in 0..MaxNode }

\* the Partitionings of a node set: ordered, non-empty parts, pairwise
\* disjoint, covering the nodes
Partitionings(N) ==
    UNION { { P \in [1..k -> (SUBSET N) \ {{}}] :
                /\ \A i, j \in 1..k : i # j => P[i] \cap P[j] = {}
                /\ UNION {P[i] : i \in 1..k} = N }
            : k \in 0..MaxParts }

\* hmod.kumar(H), the library's community detection: some Partitioning of
\* the hypergraph's nodes
kumar(H) == Partitionings(H.nodes)

(***************************************************************************)
(* Conductance (legacy facade, computed from the incidence).               *)
(***************************************************************************)
\* the hyperedges that contain the node
get_hyperedges(H, node) ==
    SelectSeq([i \in 1..Len(H.incidence_dict) |-> H.incidence_dict[i].key],
              LAMBDA edge :
                \E i \in 1..Len(H.incidence_dict) :
                    /\ H.incidence_dict[i].key = edge
                    /\ node \in Range(H.incidence_dict[i].value))

RECURSIVE ws_sum(_, _)
\* sum([len(get_hyperedges(node)) for node in subset])
ws_sum(H, subset) ==
    IF subset = {} THEN 0
    ELSE LET node == CHOOSE x \in subset : TRUE
         IN  Len(get_hyperedges(H, node)) + ws_sum(H, subset \ {node})

RECURSIVE was_loop(_, _, _, _)
\* the loop over H.edges that accumulates was, from the i-th edge on
was_loop(H, subset, subset2, i) ==
    IF i > Len(H.incidence_dict) THEN 0
    ELSE LET he_vertices == Range(H.incidence_dict[i].value)
             rest == was_loop(H, subset, subset2, i + 1)
         IN  IF Cardinality(he_vertices \cap subset) = 0 THEN rest
             ELSE IF Cardinality(he_vertices \cap subset2) = 0 THEN rest
             ELSE Cardinality(he_vertices) + rest

get_subset_conductanceMutCrossing(H, subset) ==
    LET subset2 == H.nodes \ subset
        ws == ws_sum(H, subset)
        was == SumSeq([i \in 1..Len(H.incidence_dict) |->
                   LET he == Range(H.incidence_dict[i].value)
                   IN  IF he \cap subset = {} \/ he \cap subset2 = {} THEN 0
                       ELSE Cardinality(he \cap subset2)])
    IN  TrueDiv(was, ws)

get_subset_conductance(H, subset) ==
    LET subset2 == H.nodes \ subset
        ws == ws_sum(H, subset)
        was == was_loop(H, subset, subset2, 1)
    IN  TrueDiv(was, ws)

\* the newer facade hands the subset to the library's conductance, the
\* primitive the legacy facade spells out
subset_conductance(H, subset) == get_subset_conductance(H, subset)

RECURSIVE conductance_listMutOrder(_, _, _)
conductance_listMutOrder(H, parts, i) ==
    IF i > Len(parts) THEN Return(<<>>)
    ELSE LET c == subset_conductance(H, parts[i])
         IN  IF c.kind = "raise" THEN c
             ELSE LET rest == conductance_listMutOrder(H, parts, i + 1)
                  IN  IF rest.kind = "raise" THEN rest
                      ELSE Return(rest.value \o <<c.value>>)

RECURSIVE conductance_list(_, _, _)
\* [f(subset) for subset in parts]: the list of the values, or the first
\* exception raised
conductance_list(H, parts, i) ==
    IF i > Len(parts) THEN Return(<<>>)
    ELSE LET c == subset_conductance(H, parts[i])
         IN  IF c.kind = "raise" THEN c
             ELSE LET rest == conductance_list(H, parts, i + 1)
                  IN  IF rest.kind = "raise" THEN rest
                      ELSE Return(<<c.value>> \o rest.value)

\* enumerate(list): the (index, item) pairs, indices from 0
enumerate(list) ==
    [i \in 1..Len(list) |-> [type |-> "tuple", index |-> i - 1, item |-> list[i]]]

(***************************************************************************)
(* The facade's state and its operations.                                  *)
(***************************************************************************)
NoRet == [op |-> "none", n |-> 0, subset |-> {}, start_temp |-> 0,
          end_temp |-> 0, out |-> Return(<<>>)]

NoTHG == [pool |-> <<>>, at |-> <<>>]

\* RnaStats(HG) of forna_rna_stats: the partitions list starts empty.
\* RnaStats(path) of RnaStats: the partitions and the precomputed
\* hypergraph start as None.
InitFacade ==
    /\ variant \in {"forna", "legacy"}
    /\ HG \in FacadeHypergraphs
    /\ partitions_field = [none |-> (variant = "legacy"), list |-> <<>>]
    /\ precomputed_H = FALSE
    /\ kumar_log = <<>>
    /\ other = EmptyHG
    /\ THG = NoTHG
    /\ ret = NoRet

\* the body of partitions() of forna_rna_stats, as a relation on the cache
\* and the log of the hmod.kumar invocations
partitions_body ==
    IF Len(partitions_field.list) = 0
    THEN /\ Len(kumar_log) < MaxCalls
         /\ \E P \in kumar(HG) :
                /\ partitions_field' = [none |-> FALSE, list |-> P]
                /\ kumar_log' = Append(kumar_log, P)
    ELSE UNCHANGED <<partitions_field, kumar_log>>

partitions ==
    /\ variant = "forna"
    /\ partitions_body
    /\ ret' = [NoRet EXCEPT !.op = "partitions",
                            !.out = Return(partitions_field'.list)]
    /\ UNCHANGED <<variant, HG, precomputed_H, other, THG>>

partition ==
    /\ variant = "forna"
    /\ \E n \in (-(MaxParts + 1))..MaxParts :
        /\ partitions_body
        /\ ret' = [NoRet EXCEPT !.op = "partition", !.n = n,
                                !.out = ListIndex(partitions_field'.list, n)]
    /\ UNCHANGED <<variant, HG, precomputed_H, other, THG>>

\* hmod.modularity is the library's; its value is not modelled
modularity ==
    /\ variant = "forna"
    /\ partitions_body
    /\ ret' = [NoRet EXCEPT !.op = "modularity",
                            !.out = Return(<<"modularity">>)]
    /\ UNCHANGED <<variant, HG, precomputed_H, other, THG>>

subset_conductance_call ==
    /\ variant = "forna"
    /\ \E subset \in SUBSET HG.nodes :
        ret' = [NoRet EXCEPT !.op = "subset_conductance", !.subset = subset,
                             !.out = subset_conductance(HG, subset)]
    /\ UNCHANGED <<variant, HG, partitions_field, precomputed_H, kumar_log,
                   other, THG>>

partitions_conductance ==
    /\ variant = "forna"
    /\ partitions_body
    /\ ret' = [NoRet EXCEPT !.op = "partitions_conductance",
                            !.out = conductance_list(HG, partitions_field'.list, 1)]
    /\ UNCHANGED <<variant, HG, precomputed_H, other, THG>>

\* the body of partitions() of RnaStats (legacy)
legacy_partitions_body ==
    /\ precomputed_H' = TRUE
    /\ IF partitions_field.none
       THEN /\ Len(kumar_log) < MaxCalls
            /\ \E P \in kumar(HG) :
                   /\ partitions_field' = [none |-> FALSE, list |-> P]
                   /\ kumar_log' = Append(kumar_log, P)
       ELSE UNCHANGED <<partitions_field, kumar_log>>

legacy_partitions ==
    /\ variant = "legacy"
    /\ legacy_partitions_body
    /\ ret' = [NoRet EXCEPT !.op = "partitions",
                            !.out = Return(partitions_field'.list)]
    /\ UNCHANGED <<variant, HG, other, THG>>

legacy_partition ==
    /\ variant = "legacy"
    /\ \E n \in (-(MaxParts + 1))..MaxParts :
        /\ legacy_partitions_body
        /\ ret' = [NoRet EXCEPT !.op = "partition", !.n = n,
                                !.out = ListIndex(partitions_field'.list, n)]
    /\ UNCHANGED <<variant, HG, other, THG>>

legacy_modularity ==
    /\ variant = "legacy"
    /\ legacy_partitions_body
    /\ ret' = [NoRet EXCEPT !.op = "modularity",
                            !.out = Return(<<"modularity">>)]
    /\ UNCHANGED <<variant, HG, other, THG>>

get_subset_conductance_call ==
    /\ variant = "legacy"
    /\ \E subset \in SUBSET HG.nodes :
        ret' = [NoRet EXCEPT !.op = "get_subset_conductance",
                             !.subset = subset,
                             !.out = get_subset_conductance(HG, subset)]
    /\ UNCHANGED <<variant, HG, partitions_field, precomputed_H, kumar_log,
                   other, THG>>

get_partitions_conductance ==
    /\ variant = "legacy"
    /\ legacy_partitions_body
    /\ ret' =
        LET l == conductance_list(HG, partitions_field'.list, 1)
        IN  [NoRet EXCEPT !.op = "get_partitions_conductance",
                          !.out = IF l.kind = "raise" THEN l
                                  ELSE Return(enumerate(l.value))]
    /\ UNCHANGED <<variant, HG, other, THG>>

Next ==
    \/ partitions
    \/ partition
    \/ modularity
    \/ subset_conductance_call
    \/ partitions_conductance
    \/ legacy_partitions
    \/ legacy_partition
    \/ legacy_modularity
    \/ get_subset_conductance_call
    \/ get_partitions_conductance

Spec == InitFacade /\ [][Next]_vars

(***************************************************************************)
(* Structural diff of two hypergraphs (forna_rna_stats.RnaStats).          *)
(***************************************************************************)
\* str.startswith(prefix)
startswith(str, prefix) ==
    /\ Len(str) >= Len(prefix)
    /\ SubSeq(str, 1, Len(prefix)) = prefix

\* the items of the incidence dict whose key starts with neither "l" nor
\* "db", in the dict's order
secondary_structures(H) ==
    SelectSeq(H.incidence_dict,
              LAMBDA item : /\ ~startswith(item.key, <<"l">>)
                            /\ ~startswith(item.key, <<"d", "b">>))

dict_has(d, k) == \E i \in 1..Len(d) : d[i].key = k

\* d[k] of a defaultdict(int): the stored value, 0 for a missing key
dict_get(d, k) ==
    IF dict_has(d, k)
    THEN d[CHOOSE i \in 1..Len(d) : d[i].key = k].value
    ELSE 0

\* d[k] = v: in place for a key the dict holds, appended otherwise
dict_set(d, k, v) ==
    IF dict_has(d, k)
    THEN [i \in 1..Len(d) |-> IF d[i].key = k THEN [key |-> k, value |-> v]
                                               ELSE d[i]]
    ELSE Append(d, [key |-> k, value |-> v])

RECURSIVE count_by_type(_, _, _)
\* for name in structures.keys(): count[name[0]] = count[name[0]] + 1
count_by_type(structures, i, count) ==
    IF i > Len(structures) THEN count
    ELSE LET name == structures[i].key
         IN  count_by_type(structures, i + 1,
                 dict_set(count, name[1], dict_get(count, name[1]) + 1))

structure_differencesMutKeys(H1, H2) ==
    IF Cardinality(H1.nodes) # Cardinality(H2.nodes)
    THEN Raise("Exception")
    ELSE LET this_count == count_by_type(secondary_structures(H1), 1, <<>>)
             other_count == count_by_type(secondary_structures(H2), 1, <<>>)
             kept == SelectSeq(this_count, LAMBDA item :
                        item.value # dict_get(other_count, item.key))
         IN  Return([i \in 1..Len(kept) |->
                [key |-> kept[i].key,
                 value |-> kept[i].value - dict_get(other_count, kept[i].key)]])

structure_differences(H1, H2) ==
    IF Cardinality(H1.nodes) # Cardinality(H2.nodes)
    THEN Raise("Exception")
    ELSE LET this_count == count_by_type(secondary_structures(H1), 1, <<>>)
             other_count == count_by_type(secondary_structures(H2), 1, <<>>)
             kept == SelectSeq(this_count, LAMBDA item :
                        /\ dict_has(other_count, item.key)
                        /\ item.value # dict_get(other_count, item.key))
         IN  Return([i \in 1..Len(kept) |->
                [key |-> kept[i].key,
                 value |-> kept[i].value - dict_get(other_count, kept[i].key)]])

RECURSIVE flatten(_)
\* [element for row in differences for element in row]
flatten(rows) == IF rows = <<>> THEN <<>> ELSE Head(rows) \o flatten(Tail(rows))

RECURSIVE differences_loop(_, _, _)
\* the two nested loops: for the i-th structure of this on, the row of the
\* first structure of other with the same name (break), none if there is none
differences_loop(this_structures, other_structures, i) ==
    IF i > Len(this_structures) THEN <<>>
    ELSE LET this_name == this_structures[i].key
             this_structure == this_structures[i].value
             matches == {j \in 1..Len(other_structures) :
                            other_structures[j].key = this_name}
             rest == differences_loop(this_structures, other_structures, i + 1)
         IN  IF matches = {} THEN rest
             ELSE LET j == CHOOSE x \in matches : \A y \in matches : x <= y
                      other_structure == other_structures[j].value
                  IN  <<SelectSeq(this_structure, LAMBDA item :
                            item \notin Range(other_structure))>> \o rest

get_nucleotides_change_structureMutNoCheck(H1, H2) ==
    Return(flatten(differences_loop(secondary_structures(H1),
                                    secondary_structures(H2), 1)))

get_nucleotides_change_structureMutAll(H1, H2) ==
    IF Cardinality(H1.nodes) # Cardinality(H2.nodes)
    THEN Raise("Exception")
    ELSE Return(flatten(differences_loop(H1.incidence_dict,
                                         H2.incidence_dict, 1)))

get_nucleotides_change_structure(H1, H2) ==
    IF Cardinality(H1.nodes) # Cardinality(H2.nodes)
    THEN Raise("Exception")
    ELSE Return(flatten(differences_loop(secondary_structures(H1),
                                         secondary_structures(H2), 1)))

(***************************************************************************)
(* The hypergraph pairs the diff is run on.                                *)
(***************************************************************************)
stem1 == <<"s", "1">>
stem2 == <<"s", "2">>
hairpin1 == <<"h", "1">>
backbone1 == <<"l", "1">>
dangle1 == <<"d", "1">>
dotbracket1 == <<"d", "b", "1">>

MotifIds == {stem1, stem2, hairpin1, backbone1, dangle1, dotbracket1}

\* the lists without repetition over a set of ids, up to MaxEdges long
IdLists(ids) ==
    UNION { {q \in [1..k -> ids] : \A i, j \in 1..k : i # j => q[i] # q[j]}
            : k \in 0..MaxEdges }

RECURSIVE Reverse(_)
Reverse(q) == IF q = <<>> THEN <<>> ELSE Reverse(Tail(q)) \o <<Head(q)>>

\* the node lists of a hyperedge over the nodes 1..n: the non-empty
\* subsets, ascending and descending
MemberLists(n) ==
    LET asc == {AscList(S) : S \in (SUBSET (1..n)) \ {{}}}
    IN  asc \cup {Reverse(q) : q \in asc}

\* hypergraphs that differ in their motif ids: every hyperedge spans all
\* the nodes
MotifHypergraphs ==
    UNION { { [nodes |-> 1..n,
               incidence_dict |-> [i \in 1..Len(q) |->
                                     [key |-> q[i], value |-> AscList(1..n)]]]
              : q \in IF n = 0 THEN {<<>>} ELSE IdLists(MotifIds) }
            : n \in 0..MaxNode }

\* hypergraphs that differ in the nodes their hyperedges span: at most two
\* hyperedges among a stem, a hairpin and a backbone edge
SpanIdLists ==
    {<<>>, <<stem1>>, <<hairpin1>>, <<backbone1>>, <<stem1, hairpin1>>,
     <<hairpin1, stem1>>, <<stem1, backbone1>>, <<backbone1, hairpin1>>}

SpanHypergraphs ==
    UNION { UNION { { [nodes |-> 1..n,
                       incidence_dict |-> [i \in 1..Len(q) |->
                                             [key |-> q[i], value |-> m[i]]]]
                      : m \in [1..Len(q) -> MemberLists(n)] }
                    : q \in IF n = 0 THEN {<<>>} ELSE SpanIdLists }
            : n \in 0..MaxNode }

NoField == [none |-> FALSE, list |-> <<>>]

InitDiff ==
    /\ \/ HG \in MotifHypergraphs /\ other \in MotifHypergraphs
       \/ HG \in SpanHypergraphs /\ other \in SpanHypergraphs
    /\ variant = "forna"
    /\ partitions_field = NoField
    /\ precomputed_H = FALSE
    /\ kumar_log = <<>>
    /\ THG = NoTHG
    /\ ret = NoRet

structure_differences_call ==
    /\ ret' = [NoRet EXCEPT !.op = "structure_differences",
                            !.out = structure_differences(HG, other)]
    /\ UNCHANGED <<variant, HG, partitions_field, precomputed_H, kumar_log,
                   other, THG>>

get_nucleotides_change_structure_call ==
    /\ ret' = [NoRet EXCEPT !.op = "get_nucleotides_change_structure",
                            !.out = get_nucleotides_change_structure(HG, other)]
    /\ UNCHANGED <<variant, HG, partitions_field, precomputed_H, kumar_log,
                   other, THG>>

NextDiff ==
    \/ structure_differences_call
    \/ get_nucleotides_change_structure_call

SpecDiff == InitDiff /\ [][NextDiff]_vars

(***************************************************************************)
(* Temperature sweep (TemperatureFoldingStats).                            *)
(*                                                                         *)
(* The provider holds hypergraph instances (pool: the index is the         *)
(* instance's identity) and the instance each temperature maps to (at).    *)
(* Two temperatures may share an instance; two instances may be equal.     *)
(***************************************************************************)
\* THG.get_hypergraph(temp): the instance valid at the temperature
get_hypergraph(thg, temp) == thg.at[temp]

\* the hypergraph an instance holds
deref(thg, h) == thg.pool[h]

RECURSIVE count_elements(_, _, _)
\* for elem in elements: counts[elem] += 1, on a defaultdict(int)
count_elements(elements, i, counts) ==
    IF i > Len(elements) THEN counts
    ELSE count_elements(elements, i + 1,
             dict_set(counts, elements[i], dict_get(counts, elements[i]) + 1))

RECURSIVE sensibility_loop(_, _, _, _)
\* the loop over range(temp, end_temp)
sensibility_loop(thg, temp, end_temp, counts) ==
    IF temp >= end_temp THEN Return(counts)
    ELSE LET h1 == get_hypergraph(thg, temp)
             h2 == get_hypergraph(thg, temp + 1)
         IN  IF h1 = h2
             THEN sensibility_loop(thg, temp + 1, end_temp, counts)
             ELSE LET elements == get_nucleotides_change_structure(
                                      deref(thg, h1), deref(thg, h2))
                  IN  IF elements.kind = "raise" THEN elements
                      ELSE sensibility_loop(thg, temp + 1, end_temp,
                               count_elements(elements.value, 1, counts))

get_nucleotide_sensibility_to_changesMutStart(thg, start_temp, end_temp) ==
    sensibility_loop(thg, start_temp + 1, end_temp, <<>>)

\* insert_temperature_range primes the provider and changes no lookup
get_nucleotide_sensibility_to_changes(thg, start_temp, end_temp) ==
    sensibility_loop(thg, start_temp, end_temp, <<>>)

\* the foldings of one two-nucleotide sequence: the backbone, and a stem and
\* a hairpin that may be absent
SweepNodes == 1..2

Foldings ==
    { [nodes |-> SweepNodes,
       incidence_dict |->
           <<[key |-> backbone1, value |-> AscList(SweepNodes)]>>
           \o (IF s = {} THEN <<>> ELSE <<[key |-> stem1, value |-> AscList(s)]>>)
           \o (IF h = {} THEN <<>> ELSE <<[key |-> hairpin1, value |-> AscList(h)]>>)]
      : s \in (SUBSET SweepNodes) \ {{}}, h \in {{}, {1}, {2}} }

\* the instance of each temperature, instances numbered in the order the
\* temperatures first use them
InstanceMaps ==
    {at \in [0..MaxTemp -> 1..(MaxTemp + 1)] :
        /\ at[0] = 1
        /\ \A t \in 1..MaxTemp :
              at[t] <= 1 + Cardinality({at[u] : u \in 0..(t - 1)})}

Providers ==
    UNION { { [pool |-> pool, at |-> at]
              : pool \in [1..Cardinality({at[t] : t \in 0..MaxTemp}) -> Foldings] }
            : at \in InstanceMaps }

InitSweep ==
    /\ THG \in Providers
    /\ variant = "forna"
    /\ HG = EmptyHG
    /\ other = EmptyHG
    /\ partitions_field = NoField
    /\ precomputed_H = FALSE
    /\ kumar_log = <<>>
    /\ ret = NoRet

get_nucleotide_sensibility_to_changes_call ==
    /\ \E start_temp \in 0..MaxTemp : \E end_temp \in start_temp..MaxTemp :
        ret' = [NoRet EXCEPT
                  !.op = "get_nucleotide_sensibility_to_changes",
                  !.start_temp = start_temp,
                  !.end_temp = end_temp,
                  !.out = get_nucleotide_sensibility_to_changes(
                              THG, start_temp, end_temp)]
    /\ UNCHANGED <<variant, HG, partitions_field, precomputed_H, kumar_log,
                   other, THG>>

NextSweep == get_nucleotide_sensibility_to_changes_call

SpecSweep == InitSweep /\ [][NextSweep]_vars

(***************************************************************************)
(* The conductance formula stated on the incidence relation: ws counts the *)
(* (hyperedge, node) incidences with the node in the subset; was counts    *)
(* the incidences of the hyperedges that meet both the subset and its      *)
(* complement.                                                             *)
(***************************************************************************)
IncidencesOf(H, S) ==
    {p \in (1..Len(H.incidence_dict)) \X S :
        p[2] \in Range(H.incidence_dict[p[1]].value)}

Crosses(H, S, i) ==
    /\ \E v \in S : v \in Range(H.incidence_dict[i].value)
    /\ \E v \in H.nodes \ S : v \in Range(H.incidence_dict[i].value)

DegreeSum(H, S) == Cardinality(IncidencesOf(H, S))

CutArity(H, S) ==
    Cardinality({p \in IncidencesOf(H, H.nodes) : Crosses(H, S, p[1])})

IsConductanceCall == ret.op \in {"get_subset_conductance", "subset_conductance"}

\* C1: whenever the degree sum ws of the subset is non-zero, subset
\* conductance returns the float was/ws, with was the summed arity of the
\* hyperedges that meet both the subset and its complement.
C1_ConductanceIsWasOverWs ==
    (IsConductanceCall /\ DegreeSum(HG, ret.subset) # 0) =>
        /\ ret.out.kind = "return"
        /\ ret.out.value.type = "float"
        /\ ret.out.value.den > 0
        /\ ret.out.value.num * DegreeSum(HG, ret.subset)
              = ret.out.value.den * CutArity(HG, ret.subset)

\* a conductance above 1 was returned: a crossing hyperedge counted whole
C1_Witness ==
    /\ ret.op = "get_subset_conductance"
    /\ DegreeSum(HG, ret.subset) # 0
    /\ ret.out.kind = "return"
    /\ ret.out.value.num > ret.out.value.den

\* C2: whenever the degree sum ws of the subset is zero, subset conductance
\* raises and returns no value.
C2_ZeroDegreeSumRaises ==
    (IsConductanceCall /\ DegreeSum(HG, ret.subset) = 0) =>
        /\ ret.out.kind = "raise"
        /\ ret.out.error = "ZeroDivisionError"

\* a non-empty subset of nodes that belong to no hyperedge was passed
C2_Witness ==
    /\ ret.op = "get_subset_conductance"
    /\ ret.subset # {}
    /\ DegreeSum(HG, ret.subset) = 0
    /\ ret.out.kind = "raise"

\* C4: the community detection is invoked at most once per facade, and
\* every partitions() returns the Partitioning of that first invocation.
C4_KumarInvokedAtMostOnce ==
    /\ Len(kumar_log) <= 1
    /\ (ret.op = "partitions" /\ Len(kumar_log) >= 1) =>
            ret.out.value = kumar_log[1]

\* C5: partition(n) returns partitions()[n] for 0 <= n < len(partitions())
\* and raises for every other n, the negative ones included.
C5_PartitionIndexChecked ==
    ret.op = "partition" =>
        IF 0 <= ret.n /\ ret.n < Len(partitions_field.list)
        THEN ret.out = Return(partitions_field.list[ret.n + 1])
        ELSE ret.out.kind = "raise"

AllDefined(H, parts) ==
    \A i \in 1..Len(parts) : subset_conductance(H, parts[i]).kind = "return"

\* C9 as stated: the per-partition conductance of either facade is a
\* sequence as long as the Partitioning whose i-th element is the
\* conductance of the i-th partition.
C9_Original ==
    (/\ ret.op \in {"partitions_conductance", "get_partitions_conductance"}
     /\ ret.out.kind = "return") =>
        /\ Len(ret.out.value) = Len(partitions_field.list)
        /\ \A i \in 1..Len(ret.out.value) :
            /\ ret.out.value[i].type = "float"
            /\ ret.out.value[i]
                  = subset_conductance(HG, partitions_field.list[i]).value

\* C9 (amended): partitions_conductance returns the list, as long as the
\* Partitioning, whose i-th element is the conductance of the i-th
\* partition; the legacy get_partitions_conductance returns the enumeration
\* of that list, whose i-th element is the pair of the index and that
\* conductance; either raises when some partition has a zero degree sum.
C9_ConductancePerPartition ==
    LET parts == partitions_field.list
        isList == ret.op = "partitions_conductance"
        isEnum == ret.op = "get_partitions_conductance"
    IN  (isList \/ isEnum) =>
          IF AllDefined(HG, parts)
          THEN /\ ret.out.kind = "return"
               /\ Len(ret.out.value) = Len(parts)
               /\ \A i \in 1..Len(parts) :
                    LET c == subset_conductance(HG, parts[i]).value
                        x == ret.out.value[i]
                    IN  /\ isList => x.type = "float" /\ x = c
                        /\ isEnum => /\ x.type = "tuple"
                                     /\ x.index = i - 1
                                     /\ x.item = c
          ELSE /\ ret.out.kind = "raise"
               /\ ret.out.error = "ZeroDivisionError"

\* two partitions with different conductances were returned in order
C9_Witness ==
    /\ ret.op = "partitions_conductance"
    /\ ret.out.kind = "return"
    /\ Len(ret.out.value) = 2
    /\ ret.out.value[1] # ret.out.value[2]

(***************************************************************************)
(* The diff stated on the hyperedge ids.                                   *)
(***************************************************************************)
IsSecondaryId(id) ==
    /\ id[1] # "l"
    /\ ~(Len(id) >= 2 /\ id[1] = "d" /\ id[2] = "b")

SecondaryIds(H) ==
    {H.incidence_dict[i].key : i \in 1..Len(H.incidence_dict)}
        \cap {id \in MotifIds : IsSecondaryId(id)}

MotifCount(H, type) == Cardinality({id \in SecondaryIds(H) : id[1] = type})

MotifTypes(H) == {id[1] : id \in SecondaryIds(H)}

DictKeys(d) == {d[i].key : i \in 1..Len(d)}

EdgeOf(H, id) ==
    H.incidence_dict[CHOOSE i \in 1..Len(H.incidence_dict) :
                        H.incidence_dict[i].key = id].value

\* the nodes the i-th hyperedge of H1 lost, in the hyperedge's order
LostFrom(H1, H2, i) ==
    LET id == H1.incidence_dict[i].key
    IN  IF id \in SecondaryIds(H1) \cap SecondaryIds(H2)
        THEN SelectSeq(H1.incidence_dict[i].value,
                       LAMBDA v : v \notin Range(EdgeOf(H2, id)))
        ELSE <<>>

RECURSIVE LostUpTo(_, _, _)
LostUpTo(H1, H2, k) ==
    IF k = 0 THEN <<>> ELSE LostUpTo(H1, H2, k - 1) \o LostFrom(H1, H2, k)

IsDiffCall ==
    ret.op \in {"structure_differences", "get_nucleotides_change_structure"}

\* C6: both diff operations raise exactly when the two hypergraphs have
\* different node counts, whatever their hyperedges.
C6_SizeMismatchRaises ==
    IsDiffCall =>
        (ret.out.kind = "raise"
            <=> Cardinality(HG.nodes) # Cardinality(other.nodes))

\* hypergraphs of different sizes but the same hyperedge ids were compared
C6_Witness ==
    /\ ret.op = "get_nucleotides_change_structure"
    /\ Cardinality(HG.nodes) # Cardinality(other.nodes)
    /\ DictKeys(HG.incidence_dict) = DictKeys(other.incidence_dict)
    /\ HG.incidence_dict # <<>>
    /\ ret.out.kind = "raise"

\* C7: for hypergraphs of equal node counts, structure_differences on
\* (H1,H2) and on (H2,H1) have the same keys, the motif types present in
\* both whose counts differ, and opposite values.
C7_StructureDifferencesAntisymmetric ==
    (/\ ret.op = "structure_differences"
     /\ Cardinality(HG.nodes) = Cardinality(other.nodes)) =>
        LET back == structure_differences(other, HG)
            there == ret.out.value
        IN  /\ ret.out.kind = "return"
            /\ back.kind = "return"
            /\ \A i, j \in 1..Len(there) :
                    there[i].key = there[j].key => i = j
            /\ DictKeys(there) =
                  {t \in MotifTypes(HG) \cap MotifTypes(other) :
                        MotifCount(HG, t) # MotifCount(other, t)}
            /\ DictKeys(there) = DictKeys(back.value)
            /\ \A i \in 1..Len(there) :
                  /\ there[i].value = MotifCount(HG, there[i].key)
                                        - MotifCount(other, there[i].key)
                  /\ there[i].value = -dict_get(back.value, there[i].key)

\* a motif type of both sides was reported while another, of one side only,
\* was not
C7_Witness ==
    /\ ret.op = "structure_differences"
    /\ ret.out.kind = "return"
    /\ Len(ret.out.value) >= 1
    /\ MotifTypes(HG) # MotifTypes(other)

\* C8: for hypergraphs of equal node counts, get_nucleotides_change_structure
\* returns, in the order of H1's secondary structures, the nodes of each
\* that H2's structure of the same id lacks; an id of one side only adds
\* nothing, a node lost from several structures appears once per structure,
\* and a hypergraph compared with itself gives the empty list.
C8_NodesChangedStructure ==
    (/\ ret.op = "get_nucleotides_change_structure"
     /\ Cardinality(HG.nodes) = Cardinality(other.nodes)) =>
        /\ ret.out.kind = "return"
        /\ ret.out.value = LostUpTo(HG, other, Len(HG.incidence_dict))
        /\ (HG = other => ret.out.value = <<>>)

\* one node was lost from two structures and is listed twice
C8_Witness ==
    /\ ret.op = "get_nucleotides_change_structure"
    /\ ret.out.kind = "return"
    /\ Len(ret.out.value) = 2
    /\ ret.out.value[1] = ret.out.value[2]

(***************************************************************************)
(* The sweep stated on its steps.                                          *)
(***************************************************************************)
IsSweepCall == ret.op = "get_nucleotide_sensibility_to_changes"

Steps == ret.start_temp..(ret.end_temp - 1)

\* the diff of the step from temperature t to t + 1
StepDiff(t) ==
    get_nucleotides_change_structure(THG.pool[THG.at[t]],
                                     THG.pool[THG.at[t + 1]]).value

\* the steps whose two snapshots are different instances
ComparedSteps == {t \in Steps : THG.at[t] # THG.at[t + 1]}

Occurrences(q, v) == Cardinality({i \in 1..Len(q) : q[i] = v})

\* C3 as stated: the counter of a node is the number of steps of the sweep
\* whose diff lists the node, so no counter exceeds the number of steps.
C3_CountsSteps ==
    IsSweepCall =>
        \A v \in SweepNodes :
            /\ dict_get(ret.out.value, v)
                  = Cardinality({t \in Steps : v \in Range(StepDiff(t))})
            /\ dict_get(ret.out.value, v) <= ret.end_temp - ret.start_temp

\* C10: the keys of the returned mapping are exactly the nodes some compared
\* step's diff lists, every value is at least 1 and counts the node's
\* occurrences in the diffs of the compared steps, so a step whose snapshots
\* are one instance adds nothing and a zero-width range gives the empty
\* mapping.
C10_SensitivityKeys ==
    IsSweepCall =>
        LET counts == ret.out.value
        IN  /\ ret.out.kind = "return"
            /\ \A i, j \in 1..Len(counts) : counts[i].key = counts[j].key => i = j
            /\ DictKeys(counts) = UNION {Range(StepDiff(t)) : t \in ComparedSteps}
            /\ \A i \in 1..Len(counts) :
                  /\ counts[i].value >= 1
                  /\ counts[i].value
                        = SumSeq([k \in 1..Cardinality(Steps) |->
                              LET t == ret.start_temp + k - 1
                              IN  IF t \in ComparedSteps
                                  THEN Occurrences(StepDiff(t), counts[i].key)
                                  ELSE 0])
            /\ (ret.start_temp = ret.end_temp => counts = <<>>)

\* a sweep with a step on one instance and a step that changed a node
C10_Witness ==
    /\ IsSweepCall
    /\ ComparedSteps # Steps
    /\ ComparedSteps # {}
    /\ ret.out.value # <<>>
    /\ DictKeys(ret.out.value) # SweepNodes

====
